---- MODULE Spec2Model ----
(***************************************************************************)
(* A model of digi-me: ContextManager (conversation store),                *)
(* PersonalityEngine (response decision), DigitalClone (orchestrator),     *)
(* the chat request of OllamaProvider, WhatsAppPlatform (transport) and    *)
(* PluginManager.                                                          *)
(*                                                                         *)
(* Time is counted in whole days (the variable now); a time of day is      *)
(* counted in minutes since midnight.  Probabilities are exact rationals:  *)
(* response_probability and the random draw are hundredths, a closeness    *)
(* level is tenths.  Optional values are sequences of length 0 (None) or   *)
(* 1.                                                                      *)
(***************************************************************************)
EXTENDS Integers, Sequences, FiniteSets, TLC

\* ------------------------------------------------------------------ bounds
MaxAppends == 3
MaxCapacity == 2
MaxNow == 1
MaxCalls == 2
MaxStarts == 1

\* ------------------------------------------------------- program constants
DefaultMaxMessages == 100
DefaultWindowDays == 30
ActiveStart == 480
ActiveEnd == 1320
DefaultProbability == 80
DefaultTriggers == {"help", "question", "urgent", "please"}
DefaultTraits == [helpfulness |-> 8, analytical |-> 7, friendliness |-> 6, decisiveness |-> 5]

None == <<>>
Some(v) == <<v>>

PlatformNames == {"whatsapp", "teams"}
Senders == {"alice", "mallory"}
StoreKeys == {"whatsapp:alice", "teams:alice"}
Roles == {"user", "assistant"}

VARIABLES
  max_messages_per_conversation,
  context_window_days,
  conversations,
  key_order,
  conversation_metadata,
  arrivals,
  appended,
  now,
  is_running,
  llm_provider,
  platforms,
  start_call,
  stop_call,
  starts,
  ignore_senders,
  response_triggers,
  response_probability,
  traits,
  relationships,
  calls,
  returned,
  called,
  decision,
  is_active,
  driver,
  is_logged_in,
  monitoring_task,
  last_processed_messages,
  whatsapp_start,
  chat,
  scan,
  handed,
  sent,
  plugins,
  plugin_hooks

store_vars == <<max_messages_per_conversation, context_window_days, conversations, key_order, conversation_metadata, arrivals, appended>>
clone_vars == <<is_running, llm_provider, platforms, start_call, stop_call, starts>>
config_vars == <<ignore_senders, response_triggers, response_probability, traits>>
call_vars == <<calls, returned, called>>
transport_vars == <<is_active, driver, is_logged_in, monitoring_task, last_processed_messages, whatsapp_start, chat, scan, handed, sent>>
plugin_vars == <<plugins, plugin_hooks>>
vars == <<store_vars, now, clone_vars, config_vars, relationships, call_vars, decision, transport_vars, plugin_vars>>

\* --------------------------------------------------------- text operations
LowerChar(c) == CASE c = "H" -> "h" [] c = "E" -> "e" [] c = "L" -> "l" [] c = "P" -> "p" [] c = "M" -> "m" [] OTHER -> c

RECURSIVE Lower(_)
Lower(s) == IF Len(s) = 0 THEN "" ELSE LowerChar(SubSeq(s, 1, 1)) \o Lower(SubSeq(s, 2, Len(s)))

Contains(sub, s) == \E i \in 1..(Len(s) - Len(sub) + 1) : SubSeq(s, i, i + Len(sub) - 1) = sub

RECURSIVE Strip(_)
Strip(s) ==
  IF Len(s) = 0 THEN ""
  ELSE IF SubSeq(s, 1, 1) = " " THEN Strip(SubSeq(s, 2, Len(s)))
  ELSE IF SubSeq(s, Len(s), Len(s)) = " " THEN Strip(SubSeq(s, 1, Len(s) - 1))
  ELSE s

\* ------------------------------------------------------- ConversationStore
ConversationMessage(content, role, timestamp) == [content |-> content, role |-> role, timestamp |-> IF timestamp = None THEN now ELSE timestamp[1]]

isoformat(t) == [iso |-> t]

to_dict(msg) == [content |-> msg.content, role |-> msg.role, timestamp |-> isoformat(msg.timestamp)]

deque_append_drop_newest(dq, x, maxlen) == IF Len(dq) >= maxlen THEN dq ELSE Append(dq, x)

deque_appendleft(dq, x, maxlen) == IF Len(dq) >= maxlen THEN <<x>> \o SubSeq(dq, 1, Len(dq) - 1) ELSE <<x>> \o dq

deque_append(dq, x, maxlen) ==
  IF maxlen = 0 THEN <<>>
  ELSE IF Len(dq) >= maxlen THEN Append(Tail(dq), x)
  ELSE Append(dq, x)

Lookup(map, key, default) == IF key \in DOMAIN map THEN map[key] ELSE default

\* conversations after add_message
add_message_conversations(convs, key, msg) == (key :> deque_append(Lookup(convs, key, <<>>), msg, max_messages_per_conversation)) @@ convs

add_message_metadata_latest(meta, convs2, key, msg) ==
  LET old == Lookup(meta, key, <<>>)
      latest == IF "last_activity" \in DOMAIN old /\ old["last_activity"] > msg.timestamp THEN old["last_activity"] ELSE msg.timestamp
      upd == ("last_activity" :> latest) @@ ("message_count" :> Len(convs2[key])) @@ old
  IN (key :> (IF "first_message" \in DOMAIN old THEN upd ELSE ("first_message" :> msg.timestamp) @@ upd)) @@ meta

add_message_metadata_stale(meta, convs2, key, msg) ==
  LET old == Lookup(meta, key, <<>>)
      upd == ("last_activity" :> msg.timestamp) @@ ("message_count" :> Len(convs2[key]) - 1) @@ old
  IN (key :> (IF "first_message" \in DOMAIN old THEN upd ELSE ("first_message" :> msg.timestamp) @@ upd)) @@ meta

\* conversation_metadata after add_message, given the conversations after it
add_message_metadata(meta, convs2, key, msg) ==
  LET old == Lookup(meta, key, <<>>)
      upd == ("last_activity" :> msg.timestamp) @@ ("message_count" :> Len(convs2[key])) @@ old
  IN (key :> (IF "first_message" \in DOMAIN old THEN upd ELSE ("first_message" :> msg.timestamp) @@ upd)) @@ meta

\* the log of every message appended to a key since its record was created
add_message_arrivals(arr, key, msg) == (key :> Append(Lookup(arr, key, <<>>), msg)) @@ arr

\* the keys of the dict conversations, in insertion order, after key is looked up
key_order_touch(order, convs, key) == IF key \in DOMAIN convs THEN order ELSE Append(order, key)

add_message(key, content, role, timestamp) ==
  LET msg == ConversationMessage(content, role, timestamp)
      convs2 == add_message_conversations(conversations, key, msg)
  IN /\ conversations' = convs2
     /\ key_order' = key_order_touch(key_order, conversations, key)
     /\ conversation_metadata' = add_message_metadata(conversation_metadata, convs2, key, msg)
     /\ arrivals' = add_message_arrivals(arrivals, key, msg)
     /\ appended' = appended + 1

LastN(seq, n) == IF Len(seq) > n THEN SubSeq(seq, Len(seq) - n + 1, Len(seq)) ELSE seq

MapSeq(seq, Op(_)) == [i \in 1..Len(seq) |-> Op(seq[i])]

get_conversation_history_strict(convs, key, limit) ==
  LET messages == Lookup(convs, key, <<>>)
      cutoff_date == now - context_window_days
      InWindow(msg) == msg.timestamp > cutoff_date
      filtered == SelectSeq(messages, InWindow)
      limited == IF limit # None /\ limit[1] # 0 /\ Len(filtered) > limit[1] THEN LastN(filtered, limit[1]) ELSE filtered
  IN MapSeq(limited, to_dict)

\* the list get_conversation_history returns
get_conversation_history(convs, key, limit) ==
  LET messages == Lookup(convs, key, <<>>)
      cutoff_date == now - context_window_days
      InWindow(msg) == msg.timestamp >= cutoff_date
      filtered == SelectSeq(messages, InWindow)
      limited == IF limit # None /\ limit[1] # 0 /\ Len(filtered) > limit[1] THEN LastN(filtered, limit[1]) ELSE filtered
  IN MapSeq(limited, to_dict)

\* the lines get_recent_context formats, one per message of the limited
\* history: the time of the message, "You" or "Them", and the content; the
\* string "No previous conversation history." when there is none
get_recent_context(convs, key, max_messages) ==
  LET messages == get_conversation_history(convs, key, Some(max_messages))
      Line(msg) == [time |-> msg.timestamp.iso, role_label |-> IF msg.role = "assistant" THEN "You" ELSE "Them", content |-> msg.content]
  IN IF messages = <<>> THEN <<"No previous conversation history.">> ELSE MapSeq(messages, Line)

\* the dictionary get_conversation_summary returns; a duration is in whole days
get_conversation_summary(convs, key) ==
  LET messages == Lookup(convs, key, <<>>)
      first_message == messages[1].timestamp
      last_activity == messages[Len(messages)].timestamp
      Recent(msg) == msg.timestamp >= now - 7
  IN IF messages = <<>>
     THEN [message_count |-> 0, first_message |-> None, last_activity |-> None, days_active |-> 0]
     ELSE [message_count |-> Len(messages),
           first_message |-> Some(isoformat(first_message)),
           last_activity |-> Some(isoformat(last_activity)),
           days_active |-> (last_activity - first_message) + 1,
           recent_activity |-> Len(SelectSeq(messages, Recent))]

\* the two nested loops of search_conversations, from conversation ki of the
\* dict order and message mi of it, with the results collected so far
RECURSIVE search_scan(_, _, _, _, _, _, _)
search_scan(convs, order, query_lower, limit, ki, mi, results) ==
  IF ki > Len(order) THEN results
  ELSE LET conversation_key == order[ki]
           messages == convs[conversation_key]
       IN IF mi > Len(messages)
          THEN IF Len(results) >= limit THEN results ELSE search_scan(convs, order, query_lower, limit, ki + 1, 1, results)
          ELSE IF Contains(query_lower, Lower(messages[mi].content))
          THEN LET found == Append(results, [conversation_key |-> conversation_key,
                                             message |-> to_dict(messages[mi]),
                                             context |-> get_recent_context(convs, conversation_key, 3)])
               IN IF Len(found) >= limit THEN found ELSE search_scan(convs, order, query_lower, limit, ki, mi + 1, found)
          ELSE search_scan(convs, order, query_lower, limit, ki, mi + 1, results)

search_conversations(convs, order, query, limit) == search_scan(convs, order, Lower(query), limit, 1, 1, <<>>)

\* the defaultdict lookup of get_conversation_history creates the key
get_conversation_history_touch(convs, key) == convs @@ (key :> <<>>)

cleanup_old_conversations_keys_first_message(convs, meta) ==
  LET cutoff_date == now - context_window_days
  IN {k \in DOMAIN convs : k \in DOMAIN meta /\ "first_message" \in DOMAIN meta[k] /\ meta[k]["first_message"] < cutoff_date}

cleanup_old_conversations_keys_inclusive(convs, meta) ==
  LET cutoff_date == now - context_window_days
  IN {k \in DOMAIN convs : k \in DOMAIN meta /\ "last_activity" \in DOMAIN meta[k] /\ meta[k]["last_activity"] <= cutoff_date}

\* the keys cleanup_old_conversations collects in conversations_to_clean
cleanup_old_conversations_keys(convs, meta) ==
  LET cutoff_date == now - context_window_days
  IN {k \in DOMAIN convs : k \in DOMAIN meta /\ "last_activity" \in DOMAIN meta[k] /\ meta[k]["last_activity"] < cutoff_date}

Without(map, keys) == [k \in (DOMAIN map) \ keys |-> map[k]]

\* --------------------------------------------- construction of the objects
\* WhatsAppPlatform: no call of start() yet, no chat being scanned
NoStart == [pc |-> "idle", retry_count |-> 0, attempts |-> 0, cleanups |-> 0, setup |-> "none", setup_driver |-> None, failed_at |-> "none"]
NoScan == [pc |-> "idle", queue |-> <<>>, response |-> None]

\* PluginManager: the hooks a plugin can be registered for
HookNames == {"on_message_received", "on_response_generated", "on_conversation_started", "on_conversation_ended"}

\* ----------------------------------------------------- store specification
MessageName(i) == "M" \o ToString(i)

InitCommon ==
  /\ context_window_days = DefaultWindowDays
  /\ conversations = <<>>
  /\ key_order = <<>>
  /\ conversation_metadata = <<>>
  /\ arrivals = <<>>
  /\ appended = 0
  /\ now = 0
  /\ is_running = FALSE
  /\ llm_provider = None
  /\ platforms = <<>>
  /\ start_call = [pc |-> "idle", result |-> "none"]
  /\ stop_call = [pc |-> "idle", result |-> "none"]
  /\ starts = 0
  /\ calls = <<>>
  /\ returned = None
  /\ called = 0
  /\ decision = None
  /\ is_active = FALSE
  /\ driver = None
  /\ is_logged_in = FALSE
  /\ monitoring_task = "none"
  /\ last_processed_messages = <<>>
  /\ whatsapp_start = NoStart
  /\ chat = [messages |-> <<>>, unread |-> FALSE]
  /\ scan = NoScan
  /\ handed = <<>>
  /\ sent = <<>>
  /\ plugins = <<>>
  /\ plugin_hooks = [hook_name \in HookNames |-> <<>>]

InitStore ==
  /\ InitCommon
  /\ max_messages_per_conversation \in 1..MaxCapacity
  /\ ignore_senders = {}
  /\ response_triggers = DefaultTriggers
  /\ response_probability = DefaultProbability
  /\ traits = DefaultTraits
  /\ relationships = <<>>

StoreAddMessage(key, role, timestamp) ==
  /\ appended < MaxAppends
  /\ add_message(key, MessageName(appended + 1), role, timestamp)
  /\ UNCHANGED <<max_messages_per_conversation, context_window_days, now, clone_vars, config_vars, relationships, call_vars, decision, transport_vars, plugin_vars>>

StoreGetHistory(key) ==
  /\ conversations' = get_conversation_history_touch(conversations, key)
  /\ key_order' = key_order_touch(key_order, conversations, key)
  /\ UNCHANGED <<max_messages_per_conversation, context_window_days, conversation_metadata, arrivals, appended, now, clone_vars, config_vars, relationships, call_vars, decision, transport_vars, plugin_vars>>

StoreCleanup ==
  LET stale == cleanup_old_conversations_keys(conversations, conversation_metadata)
  IN /\ conversations' = Without(conversations, stale)
     /\ conversation_metadata' = Without(conversation_metadata, stale)
     /\ key_order' = SelectSeq(key_order, LAMBDA k : k \notin stale)
     /\ arrivals' = Without(arrivals, stale)
     /\ UNCHANGED <<appended, max_messages_per_conversation, context_window_days, now, clone_vars, config_vars, relationships, call_vars, decision, transport_vars, plugin_vars>>

StoreTick ==
  /\ now < MaxNow
  /\ now' = now + 1
  /\ UNCHANGED <<store_vars, clone_vars, config_vars, relationships, call_vars, decision, transport_vars, plugin_vars>>

\* the timestamps given to add_message: now (None), 29 days ago, 31 days ago
StoreTimestamps == {None, Some(now - DefaultWindowDays + 1), Some(now - DefaultWindowDays - 1)}

NextStore ==
  \/ \E key \in StoreKeys, timestamp \in StoreTimestamps : StoreAddMessage(key, "user", timestamp)
  \/ \E key \in StoreKeys : StoreGetHistory(key)
  \/ StoreCleanup
  \/ StoreTick

SpecStore == InitStore /\ [][NextStore]_vars

\* ------------------------------------------------- reads of the store
\* Every behaviour is a sequence of appends and lookups followed by one read,
\* whose arguments and result are kept in returned.
ReadTimestamps == {None, Some(now - DefaultWindowDays), Some(now - DefaultWindowDays - 1)}
ReadLimits == {None, Some(0), Some(1), Some(2)}
SearchQueries == {"m", "M2", "x"}
SearchLimits == {0, 1, 2}

StoreHistory(key, limit) ==
  /\ returned' = Some([op |-> "get_conversation_history", key |-> key, limit |-> limit,
                       result |-> get_conversation_history(conversations, key, limit)])
  /\ conversations' = get_conversation_history_touch(conversations, key)
  /\ key_order' = key_order_touch(key_order, conversations, key)
  /\ UNCHANGED <<max_messages_per_conversation, context_window_days, conversation_metadata, arrivals, appended, now, clone_vars, config_vars, relationships, calls, called, decision, transport_vars, plugin_vars>>

StoreSummary(key) ==
  /\ returned' = Some([op |-> "get_conversation_summary", key |-> key,
                       result |-> get_conversation_summary(conversations, key)])
  /\ conversations' = get_conversation_history_touch(conversations, key)
  /\ key_order' = key_order_touch(key_order, conversations, key)
  /\ UNCHANGED <<max_messages_per_conversation, context_window_days, conversation_metadata, arrivals, appended, now, clone_vars, config_vars, relationships, calls, called, decision, transport_vars, plugin_vars>>

StoreSearch(query, limit) ==
  /\ returned' = Some([op |-> "search_conversations", query |-> query, limit |-> limit,
                       result |-> search_conversations(conversations, key_order, query, limit)])
  /\ UNCHANGED <<store_vars, now, clone_vars, config_vars, relationships, calls, called, decision, transport_vars, plugin_vars>>

NextRead ==
  \/ returned = None /\ \E key \in StoreKeys, timestamp \in ReadTimestamps : StoreAddMessage(key, "user", timestamp)
  \/ returned = None /\ \E key \in StoreKeys : StoreGetHistory(key)
  \/ returned = None /\ \E key \in StoreKeys, limit \in ReadLimits : StoreHistory(key, limit)
  \/ returned = None /\ \E key \in StoreKeys : StoreSummary(key)
  \/ returned = None /\ \E query \in SearchQueries, limit \in SearchLimits : StoreSearch(query, limit)

SpecRead == InitStore /\ [][NextRead]_vars

\* -------------------------------------------------------- PersonalityEngine
BuiltinTriggers == {"help", "question", "urgent", "please"}

RelationshipProfile(closeness_level, personality_adjustments) == [closeness_level |-> closeness_level, personality_adjustments |-> personality_adjustments, last_interaction |-> None, interaction_frequency |-> 0]

\* max(0.0, min(1.0, weight)), a weight being in tenths
clamp_weight(weight) == IF weight > 10 THEN 10 ELSE IF weight < 0 THEN 0 ELSE weight

\* relationship is None or Some(profile), as relationships.get(sender) gives it
_get_active_traits(relationship) ==
  [name \in DOMAIN traits |->
     IF relationship # None /\ name \in DOMAIN relationship[1].personality_adjustments
     THEN clamp_weight(traits[name] + relationship[1].personality_adjustments[name])
     ELSE traits[name]]

\* the personality_traits and relationship_context entries of the context
get_context_for_sender(sender) ==
  LET relationship == IF sender \in DOMAIN relationships THEN Some(relationships[sender]) ELSE None
  IN [personality_traits |-> _get_active_traits(relationship),
      relationship_context |-> [closeness |-> IF relationship # None THEN relationship[1].closeness_level ELSE 5,
                                frequency |-> IF relationship # None THEN relationship[1].interaction_frequency ELSE 1]]

update_interaction_history_any_type(sender, message_type) ==
  IF sender \in DOMAIN relationships
  THEN [relationships EXCEPT ![sender].last_interaction = Some(now), ![sender].interaction_frequency = @ + 1]
  ELSE relationships

\* relationships after update_interaction_history(sender, message_type)
update_interaction_history(sender, message_type) ==
  IF sender \in DOMAIN relationships
  THEN [relationships EXCEPT ![sender].last_interaction = Some(now),
                             ![sender].interaction_frequency = IF message_type = "received" THEN @ + 1 ELSE @]
  ELSE relationships

response_probability_exclusive_hours(sender, content, time_of_day) ==
  LET lowered == Lower(content)
      p0 == [num |-> response_probability, den |-> 100]
      p1 == IF sender \in DOMAIN relationships
            THEN [num |-> p0.num * (10 + relationships[sender].closeness_level), den |-> p0.den * 20]
            ELSE p0
      p2 == IF \E word \in BuiltinTriggers : Contains(word, lowered)
            THEN [num |-> p1.num * 12, den |-> p1.den * 10]
            ELSE p1
      p3 == IF ~(ActiveStart < time_of_day /\ time_of_day < ActiveEnd)
            THEN [num |-> p2.num * 3, den |-> p2.den * 10]
            ELSE p2
  IN p3

\* base_prob after the adjustments of should_respond, as the fraction num/den
response_probability_for(sender, content, time_of_day) ==
  LET lowered == Lower(content)
      p0 == [num |-> response_probability, den |-> 100]
      p1 == IF sender \in DOMAIN relationships
            THEN [num |-> p0.num * (10 + relationships[sender].closeness_level), den |-> p0.den * 20]
            ELSE p0
      p2 == IF \E word \in BuiltinTriggers : Contains(word, lowered)
            THEN [num |-> p1.num * 12, den |-> p1.den * 10]
            ELSE p1
      p3 == IF ~(ActiveStart <= time_of_day /\ time_of_day <= ActiveEnd)
            THEN [num |-> p2.num * 3, den |-> p2.den * 10]
            ELSE p2
  IN p3

\* random.random() < min(1.0, base_prob), the draw being draw/100
should_respond(sender, content, time_of_day, draw) ==
  LET p == response_probability_for(sender, content, time_of_day)
      capped == IF p.num > p.den THEN [num |-> 1, den |-> 1] ELSE p
  IN draw * capped.den < 100 * capped.num

\* --------------------------------------------------------------- DigitalClone
conversation_key(platform_name, sender) == platform_name \o ":" \o sender

_should_respond_triggers_first(sender, content, time_of_day, draw) ==
  IF \E word \in response_triggers : Contains(word, Lower(content))
  THEN [respond |-> TRUE, evaluated |-> FALSE, verdict |-> FALSE]
  ELSE IF sender \in ignore_senders
  THEN [respond |-> FALSE, evaluated |-> FALSE, verdict |-> FALSE]
  ELSE LET v == should_respond(sender, content, time_of_day, draw)
       IN [respond |-> v, evaluated |-> TRUE, verdict |-> v]

_should_respond_ignores_verdict(sender, content, time_of_day, draw) ==
  IF sender \in ignore_senders
  THEN [respond |-> FALSE, evaluated |-> FALSE, verdict |-> FALSE]
  ELSE [respond |-> TRUE, evaluated |-> TRUE, verdict |-> should_respond(sender, content, time_of_day, draw)]

\* _should_respond: the verdict, and whether PersonalityEngine.should_respond ran
_should_respond(sender, content, time_of_day, draw) ==
  IF sender \in ignore_senders
  THEN [respond |-> FALSE, evaluated |-> FALSE, verdict |-> FALSE]
  ELSE IF \E word \in response_triggers : Contains(word, Lower(content))
  THEN [respond |-> TRUE, evaluated |-> FALSE, verdict |-> FALSE]
  ELSE LET v == should_respond(sender, content, time_of_day, draw)
       IN [respond |-> v, evaluated |-> TRUE, verdict |-> v]

NewPlatform == [start |-> "none", stop |-> "none", starts |-> 0, stops |-> 0]

NoCallEffects == [user_appended |-> 0, user_at |-> 0, assistant_appended |-> 0, assistant_at |-> 0, evaluated |-> FALSE, verdict |-> FALSE, generated |-> FALSE, history |-> <<>>, error |-> "none", raised |-> FALSE, hangs |-> FALSE]

CallRecord(platform_name, sender, content, running) == [platform |-> platform_name, sender |-> sender, content |-> content, key |-> conversation_key(platform_name, sender), running |-> running, pc |-> "done", ret |-> None] @@ NoCallEffects

set_llm_provider ==
  /\ llm_provider' = Some("provider")
  /\ UNCHANGED <<store_vars, now, is_running, platforms, start_call, stop_call, starts, config_vars, relationships, call_vars, decision, transport_vars, plugin_vars>>

add_platform(name) ==
  /\ name \notin DOMAIN platforms
  /\ platforms' = (name :> NewPlatform) @@ platforms
  /\ UNCHANGED <<store_vars, now, is_running, llm_provider, start_call, stop_call, starts, config_vars, relationships, call_vars, decision, transport_vars, plugin_vars>>

add_relationship(sender, closeness_level, personality_adjustments) ==
  /\ relationships' = (sender :> RelationshipProfile(closeness_level, personality_adjustments)) @@ relationships
  /\ UNCHANGED <<store_vars, now, clone_vars, config_vars, call_vars, decision, transport_vars, plugin_vars>>

start_unchecked ==
  /\ start_call.pc # "gather"
  /\ IF is_running
     THEN /\ start_call' = [pc |-> "done", result |-> "already_running"]
          /\ UNCHANGED <<is_running, platforms, starts>>
     ELSE /\ starts < MaxStarts
          /\ starts' = starts + 1
          /\ is_running' = TRUE
          /\ platforms' = [name \in DOMAIN platforms |-> [platforms[name] EXCEPT !.start = "pending", !.starts = @ + 1]]
          /\ start_call' = IF DOMAIN platforms = {} THEN [pc |-> "done", result |-> "ok"] ELSE [pc |-> "gather", result |-> "none"]
  /\ UNCHANGED <<store_vars, now, llm_provider, stop_call, config_vars, relationships, call_vars, decision, transport_vars, plugin_vars>>

\* the results with which start() or stop() raises to its caller; with every
\* other result the call returns None ("already_running" and "not_running" are
\* the early returns)
Raised(result) == result \in {"ValueError", "platform_error"}

\* start(), up to its await of asyncio.gather
start ==
  /\ start_call.pc # "gather"
  /\ IF is_running
     THEN /\ start_call' = [pc |-> "done", result |-> "already_running"]
          /\ UNCHANGED <<is_running, platforms, starts>>
     ELSE IF llm_provider = None
     THEN /\ start_call' = [pc |-> "done", result |-> "ValueError"]
          /\ UNCHANGED <<is_running, platforms, starts>>
     ELSE /\ starts < MaxStarts
          /\ starts' = starts + 1
          /\ is_running' = TRUE
          /\ platforms' = [name \in DOMAIN platforms |-> [platforms[name] EXCEPT !.start = "pending", !.starts = @ + 1]]
          /\ start_call' = IF DOMAIN platforms = {} THEN [pc |-> "done", result |-> "ok"] ELSE [pc |-> "gather", result |-> "none"]
  /\ UNCHANGED <<store_vars, now, llm_provider, stop_call, config_vars, relationships, call_vars, decision, transport_vars, plugin_vars>>

\* a platform's start task completes
platform_start_returns(name) ==
  /\ name \in DOMAIN platforms
  /\ platforms[name].start = "pending"
  /\ platforms' = [platforms EXCEPT ![name].start = "ok"]
  /\ UNCHANGED <<store_vars, now, is_running, llm_provider, start_call, stop_call, starts, config_vars, relationships, call_vars, decision, transport_vars, plugin_vars>>

platform_start_raises(name) ==
  /\ name \in DOMAIN platforms
  /\ platforms[name].start = "pending"
  /\ platforms' = [platforms EXCEPT ![name].start = "failed"]
  /\ UNCHANGED <<store_vars, now, is_running, llm_provider, start_call, stop_call, starts, config_vars, relationships, call_vars, decision, transport_vars, plugin_vars>>

StartTasks == {name \in DOMAIN platforms : platforms[name].start # "none"}

\* asyncio.gather of the start tasks returns: every task has completed
start_gather_returns ==
  /\ start_call.pc = "gather"
  /\ \A name \in StartTasks : platforms[name].start = "ok"
  /\ start_call' = [pc |-> "done", result |-> "ok"]
  /\ UNCHANGED <<store_vars, now, is_running, llm_provider, platforms, stop_call, starts, config_vars, relationships, call_vars, decision, transport_vars, plugin_vars>>

\* asyncio.gather raises the first failure; the other tasks keep running
start_gather_raises ==
  /\ start_call.pc = "gather"
  /\ \E name \in StartTasks : platforms[name].start = "failed"
  /\ start_call' = [pc |-> "done", result |-> "platform_error"]
  /\ UNCHANGED <<store_vars, now, is_running, llm_provider, platforms, stop_call, starts, config_vars, relationships, call_vars, decision, transport_vars, plugin_vars>>

\* stop(), up to its await of asyncio.gather
stop ==
  /\ stop_call.pc # "gather"
  /\ IF ~is_running
     THEN /\ stop_call' = [pc |-> "done", result |-> "not_running"]
          /\ UNCHANGED <<is_running, platforms>>
     ELSE /\ is_running' = FALSE
          /\ platforms' = [name \in DOMAIN platforms |-> [platforms[name] EXCEPT !.stop = "pending", !.stops = @ + 1]]
          /\ stop_call' = IF DOMAIN platforms = {} THEN [pc |-> "done", result |-> "ok"] ELSE [pc |-> "gather", result |-> "none"]
  /\ UNCHANGED <<store_vars, now, llm_provider, start_call, starts, config_vars, relationships, call_vars, decision, transport_vars, plugin_vars>>

platform_stop_returns(name) ==
  /\ name \in DOMAIN platforms
  /\ platforms[name].stop = "pending"
  /\ platforms' = [platforms EXCEPT ![name].stop = "ok"]
  /\ UNCHANGED <<store_vars, now, is_running, llm_provider, start_call, stop_call, starts, config_vars, relationships, call_vars, decision, transport_vars, plugin_vars>>

platform_stop_raises(name) ==
  /\ name \in DOMAIN platforms
  /\ platforms[name].stop = "pending"
  /\ platforms' = [platforms EXCEPT ![name].stop = "failed"]
  /\ UNCHANGED <<store_vars, now, is_running, llm_provider, start_call, stop_call, starts, config_vars, relationships, call_vars, decision, transport_vars, plugin_vars>>

StopTasks == {name \in DOMAIN platforms : platforms[name].stop # "none"}

stop_gather_returns ==
  /\ stop_call.pc = "gather"
  /\ \A name \in StopTasks : platforms[name].stop = "ok"
  /\ stop_call' = [pc |-> "done", result |-> "ok"]
  /\ UNCHANGED <<store_vars, now, is_running, llm_provider, platforms, start_call, starts, config_vars, relationships, call_vars, decision, transport_vars, plugin_vars>>

stop_gather_raises ==
  /\ stop_call.pc = "gather"
  /\ \E name \in StopTasks : platforms[name].stop = "failed"
  /\ stop_call' = [pc |-> "done", result |-> "platform_error"]
  /\ UNCHANGED <<store_vars, now, is_running, llm_provider, platforms, start_call, starts, config_vars, relationships, call_vars, decision, transport_vars, plugin_vars>>

process_message_body_reads_first(platform_name, sender, content, time_of_day, draw) ==
  LET key == conversation_key(platform_name, sender)
      decide == _should_respond(sender, content, time_of_day, draw)
      call == CallRecord(platform_name, sender, content, is_running)
  IN /\ add_message(key, content, "user", None)
     /\ LET seen == [call EXCEPT !.user_appended = Len(arrivals'[key]) - Len(Lookup(arrivals, key, <<>>)),
                                 !.user_at = Len(arrivals'[key]),
                                 !.evaluated = decide.evaluated,
                                 !.verdict = decide.verdict]
        IN IF ~decide.respond
           THEN /\ returned' = Some(seen)
                /\ UNCHANGED calls
           ELSE /\ calls' = ((called + 1) :> [seen EXCEPT !.pc = "generating", !.generated = TRUE,
                                                           !.history = get_conversation_history(conversations, key, None)]) @@ calls
                /\ UNCHANGED returned

\* the try block of process_message, up to its first suspension (the await of
\* llm_provider.generate_response) or to its return
process_message_body(platform_name, sender, content, time_of_day, draw) ==
  LET key == conversation_key(platform_name, sender)
      decide == _should_respond(sender, content, time_of_day, draw)
      call == CallRecord(platform_name, sender, content, is_running)
  IN /\ add_message(key, content, "user", None)
     /\ LET seen == [call EXCEPT !.user_appended = Len(arrivals'[key]) - Len(Lookup(arrivals, key, <<>>)),
                                 !.user_at = Len(arrivals'[key]),
                                 !.evaluated = decide.evaluated,
                                 !.verdict = decide.verdict]
        IN IF ~decide.respond
           THEN /\ returned' = Some(seen)
                /\ UNCHANGED calls
           ELSE /\ calls' = ((called + 1) :> [seen EXCEPT !.pc = "generating", !.generated = TRUE,
                                                           !.history = get_conversation_history(conversations', key, None)]) @@ calls
                /\ UNCHANGED returned

process_message_unguarded(platform_name, sender, content, time_of_day, draw) ==
  /\ called < MaxCalls
  /\ called' = called + 1
  /\ process_message_body(platform_name, sender, content, time_of_day, draw)
  /\ UNCHANGED <<max_messages_per_conversation, context_window_days, now, clone_vars, config_vars, relationships, decision, transport_vars, plugin_vars>>

process_message(platform_name, sender, content, time_of_day, draw) ==
  /\ called < MaxCalls
  /\ called' = called + 1
  /\ IF ~is_running
     THEN /\ returned' = Some(CallRecord(platform_name, sender, content, is_running))
          /\ UNCHANGED <<calls, conversations, key_order, conversation_metadata, arrivals, appended>>
     ELSE process_message_body(platform_name, sender, content, time_of_day, draw)
  /\ UNCHANGED <<max_messages_per_conversation, context_window_days, now, clone_vars, config_vars, relationships, decision, transport_vars, plugin_vars>>

PipelineStages == {"decision", "history"}

\* process_message when a step of its try block raises before the await of
\* generate_response: stage "decision" is PersonalityEngine.should_respond,
\* stage "history" is the read of the personality context and of the history.
\* The except clause logs the error and returns None.
process_message_raises(platform_name, sender, content, time_of_day, draw, stage) ==
  LET key == conversation_key(platform_name, sender)
      decide == _should_respond(sender, content, time_of_day, draw)
      call == CallRecord(platform_name, sender, content, is_running)
  IN /\ called < MaxCalls
     /\ is_running
     /\ IF stage = "decision"
        THEN sender \notin ignore_senders /\ ~\E word \in response_triggers : Contains(word, Lower(content))
        ELSE decide.respond
     /\ called' = called + 1
     /\ add_message(key, content, "user", None)
     /\ returned' = Some([call EXCEPT !.user_appended = Len(arrivals'[key]) - Len(Lookup(arrivals, key, <<>>)),
                                      !.user_at = Len(arrivals'[key]),
                                      !.evaluated = (stage = "decision") \/ decide.evaluated,
                                      !.verdict = (stage = "history") /\ decide.verdict,
                                      !.error = stage])
     /\ UNCHANGED <<calls, max_messages_per_conversation, context_window_days, now, clone_vars, config_vars, relationships, decision, transport_vars, plugin_vars>>

response_is_not_none(response) == response # None

\* the test "if response:" on the Optional[str] the provider returned
response_is_truthy(response) == response # None /\ response[1] # ""

\* generate_response returns response; process_message runs to its return
generate_response_returns(c, response) ==
  LET key == calls[c].key
  IN /\ ~calls[c].hangs
     /\ calls' = Without(calls, {c})
     /\ IF response_is_truthy(response)
        THEN /\ add_message(key, response[1], "assistant", None)
             /\ returned' = Some([calls[c] EXCEPT !.pc = "done", !.ret = response,
                                                  !.assistant_appended = Len(arrivals'[key]) - Len(Lookup(arrivals, key, <<>>)),
                                                  !.assistant_at = Len(arrivals'[key])])
        ELSE /\ returned' = Some([calls[c] EXCEPT !.pc = "done", !.ret = response])
             /\ UNCHANGED <<conversations, key_order, conversation_metadata, arrivals, appended>>
     /\ UNCHANGED <<called, max_messages_per_conversation, context_window_days, now, clone_vars, config_vars, relationships, decision, transport_vars, plugin_vars>>

generate_response_raises_uncaught(c) ==
  /\ ~calls[c].hangs
  /\ calls' = Without(calls, {c})
  /\ returned' = Some([calls[c] EXCEPT !.pc = "done", !.ret = None, !.error = "generator", !.raised = TRUE])
  /\ UNCHANGED <<called, store_vars, now, clone_vars, config_vars, relationships, decision, transport_vars, plugin_vars>>

\* generate_response raises; the except clause returns None
generate_response_raises(c) ==
  /\ ~calls[c].hangs
  /\ calls' = Without(calls, {c})
  /\ returned' = Some([calls[c] EXCEPT !.pc = "done", !.ret = None, !.error = "generator"])
  /\ UNCHANGED <<called, store_vars, now, clone_vars, config_vars, relationships, decision, transport_vars, plugin_vars>>

\* the provider's generate_response for call c never completes: process_message
\* stays suspended at its await, which has no timeout
generate_response_hangs(c) ==
  /\ ~calls[c].hangs
  /\ calls' = [calls EXCEPT ![c].hangs = TRUE]
  /\ UNCHANGED <<returned, called, store_vars, now, clone_vars, config_vars, relationships, decision, transport_vars, plugin_vars>>

Contents == {"hi", "Please HELP urgent"}
Responses == {None, Some(""), Some("  "), Some("Sure")}
CallPlatforms == {"whatsapp"}
CallTimes == {720, 1380}
CallDraws == {23, 50, 99}
CallCloseness == {0}
CallRelationships == {"alice"}

Init ==
  /\ InitCommon
  /\ max_messages_per_conversation = DefaultMaxMessages
  /\ ignore_senders = {"mallory"}
  /\ response_triggers = DefaultTriggers
  /\ response_probability = DefaultProbability
  /\ traits = DefaultTraits
  /\ relationships = <<>>

\* the message pipeline of a clone with no platform registered
Next ==
  \/ set_llm_provider
  \/ \E sender \in CallRelationships, closeness_level \in CallCloseness : add_relationship(sender, closeness_level, <<>>)
  \/ start
  \/ stop
  \/ \E platform_name \in CallPlatforms, sender \in Senders, content \in Contents, time_of_day \in CallTimes, draw \in CallDraws : process_message(platform_name, sender, content, time_of_day, draw)
  \/ \E c \in DOMAIN calls, response \in Responses : generate_response_returns(c, response)
  \/ \E c \in DOMAIN calls : generate_response_raises(c)
  \/ \E platform_name \in CallPlatforms, sender \in Senders, content \in Contents, time_of_day \in CallTimes, draw \in CallDraws, stage \in PipelineStages : process_message_raises(platform_name, sender, content, time_of_day, draw, stage)

Spec == Init /\ [][Next]_vars

\* the message pipeline with a provider whose calls may never complete; every
\* call that does complete is resumed by the event loop
NextTimeout ==
  \/ Next
  \/ \E c \in DOMAIN calls : generate_response_hangs(c)

GeneratorCompletes == \E c \in DOMAIN calls : (generate_response_raises(c) \/ \E response \in Responses : generate_response_returns(c, response))

SpecTimeout == Init /\ [][NextTimeout]_vars /\ WF_vars(GeneratorCompletes)

\* the lifecycle of a clone with platforms, receiving messages it does not answer
NextLifecycle ==
  \/ set_llm_provider
  \/ \E name \in PlatformNames : add_platform(name)
  \/ start
  \/ \E name \in PlatformNames : platform_start_returns(name)
  \/ \E name \in PlatformNames : platform_start_raises(name)
  \/ start_gather_returns
  \/ start_gather_raises
  \/ stop
  \/ \E name \in PlatformNames : platform_stop_returns(name)
  \/ \E name \in PlatformNames : platform_stop_raises(name)
  \/ stop_gather_returns
  \/ stop_gather_raises
  \/ process_message("whatsapp", "mallory", "hi", 720, 23)

SpecLifecycle == Init /\ [][NextLifecycle]_vars

\* ------------------------------------------------- the PersonalityEngine API
\* Every behaviour is a sequence of registrations, interaction updates and
\* clock ticks followed by one get_context_for_sender, kept in decision.
MaxInteractions == 2
TraitNames == {"helpfulness", "curiosity"}
TraitWeights == {-5, 5, 15}
TraitAdjustments == {<<>>, [helpfulness |-> 10], [helpfulness |-> -10, curiosity |-> 3]}
MessageTypes == {"received", "sent"}

add_trait(name, weight) ==
  /\ traits' = (name :> weight) @@ traits
  /\ UNCHANGED <<store_vars, now, clone_vars, ignore_senders, response_triggers, response_probability, relationships, call_vars, decision, transport_vars, plugin_vars>>

PersonalityContext(sender) ==
  /\ decision' = Some([sender |-> sender, context |-> get_context_for_sender(sender)])
  /\ UNCHANGED <<store_vars, now, clone_vars, config_vars, relationships, call_vars, transport_vars, plugin_vars>>

PersonalityInteraction(sender, message_type) ==
  /\ sender \in DOMAIN relationships => relationships[sender].interaction_frequency < MaxInteractions
  /\ relationships' = update_interaction_history(sender, message_type)
  /\ UNCHANGED <<store_vars, now, clone_vars, config_vars, call_vars, decision, transport_vars, plugin_vars>>

NextPersonality ==
  \/ decision = None /\ \E name \in TraitNames, weight \in TraitWeights : add_trait(name, weight)
  \/ decision = None /\ \E closeness_level \in CallCloseness, adjustments \in TraitAdjustments : add_relationship("alice", closeness_level, adjustments)
  \/ decision = None /\ \E sender \in Senders, message_type \in MessageTypes : PersonalityInteraction(sender, message_type)
  \/ decision = None /\ StoreTick
  \/ decision = None /\ \E sender \in Senders : PersonalityContext(sender)

SpecPersonality == Init /\ [][NextPersonality]_vars

\* ------------------------------------------- the decision as a pure function
DecideContents == {"hi", "Please HELP urgent", "a question"}
DecideTimes == {479, 480, 1320, 1321}
DecideDraws == {0, 17, 18, 23, 24, 28, 29, 59, 60, 71, 72, 79, 80, 90, 95, 96, 99}
DecideCloseness == {0, 5, 10}
DecideProbabilities == {0, 80, 100}
DecideTriggers == {DefaultTriggers, {"hi"}}

InitDecide ==
  /\ InitCommon
  /\ max_messages_per_conversation = DefaultMaxMessages
  /\ ignore_senders = {}
  /\ response_triggers \in DecideTriggers
  /\ response_probability \in DecideProbabilities
  /\ traits = DefaultTraits
  /\ relationships \in {<<>>} \cup {("alice" :> RelationshipProfile(c, <<>>)) : c \in DecideCloseness}

Decide(sender, content, time_of_day, draw) ==
  /\ decision = None
  /\ decision' = Some([sender |-> sender, content |-> content, time_of_day |-> time_of_day, draw |-> draw,
                        verdict |-> should_respond(sender, content, time_of_day, draw)])
  /\ UNCHANGED <<store_vars, now, clone_vars, config_vars, relationships, call_vars, transport_vars, plugin_vars>>

AgainTimes == {480, 1321}
AgainDraws == {0, 50, 99}

\* should_respond called once more with the message_data of the first call;
\* datetime.now() and random.random() give it the time and the draw
DecideAgain(time_of_day, draw) ==
  /\ Len(decision) = 1
  /\ decision' = Append(decision, [sender |-> decision[1].sender, content |-> decision[1].content, time_of_day |-> time_of_day, draw |-> draw,
                                     verdict |-> should_respond(decision[1].sender, decision[1].content, time_of_day, draw)])
  /\ UNCHANGED <<store_vars, now, clone_vars, config_vars, relationships, call_vars, transport_vars, plugin_vars>>

NextDecide ==
  \/ \E sender \in Senders, content \in DecideContents, time_of_day \in DecideTimes, draw \in DecideDraws : Decide(sender, content, time_of_day, draw)
  \/ \E time_of_day \in AgainTimes, draw \in AgainDraws : DecideAgain(time_of_day, draw)

SpecDecide == InitDecide /\ [][NextDecide]_vars

\* ------------------------------------------------------------ OllamaProvider
RecentHistory == 10

\* the first sentence of the default system prompt
base_system_prompt == "You are a digital clone representing a real person in their online communications."

\* the text in which _build_user_prompt wraps the content of the message
\* (the pipeline passes an empty context, so no context line is inserted)
_build_user_prompt(sender, content, platform) ==
  "Message from " \o sender \o " on " \o platform \o ":\n\"" \o content \o "\"\n\nPlease respond naturally as you would to this person."

\* the messages of the chat request generate_response builds from prompt_data:
\* the system prompt, the last ten history entries, then the user prompt
chat_messages(call) ==
  LET recent_history == LastN(call.history, RecentHistory)
      Known(msg) == msg.role \in {"user", "assistant"}
      Entry(msg) == [role |-> msg.role, content |-> msg.content]
  IN <<[role |-> "system", content |-> base_system_prompt]>>
     \o MapSeq(SelectSeq(recent_history, Known), Entry)
     \o <<[role |-> "user", content |-> _build_user_prompt(call.sender, call.content, call.platform)]>>

\* ---------------------------------------------------------- WhatsAppPlatform
\* The browser is the environment: chat is the open chat of one contact, the
\* message elements it shows (data-id, incoming or outgoing) and its unread
\* badge.  whatsapp_start is the position of the call of start(): the retry
\* loop of _setup_browser, then the navigation and the wait for the login.
\* handed lists the calls of clone_reference.process_message and sent the
\* calls of send_message, in order.
MaxIncoming == 3
MaxHandings == 3
max_retries == 3
RecentMessages == 10
Contact == "alice"

\* what stop() leaves in driver and in monitoring_task
stop_driver_kept(d) == d

stop_driver(d) == None

stop_monitoring_task(task) == IF task = "running" THEN "cancelled" ELSE task

\* stop(): the monitoring task gets CancelledError at the await where it is
\* suspended, which none of its "except Exception" clauses catches
stop_effects ==
  /\ is_active' = FALSE
  /\ monitoring_task' = stop_monitoring_task(monitoring_task)
  /\ scan' = NoScan
  /\ driver' = stop_driver(driver)

whatsapp_stop ==
  /\ stop_effects
  /\ UNCHANGED <<is_logged_in, last_processed_messages, whatsapp_start, chat, handed, sent>>
  /\ UNCHANGED <<store_vars, now, clone_vars, config_vars, relationships, call_vars, decision, plugin_vars>>

\* start() is called by DigitalClone.start, on a platform that is not started
whatsapp_start_call ==
  /\ whatsapp_start.pc \in {"idle", "raised", "started"}
  /\ driver = None
  /\ monitoring_task # "running"
  /\ starts < MaxStarts
  /\ starts' = starts + 1
  /\ whatsapp_start' = [NoStart EXCEPT !.pc = "setup"]
  /\ UNCHANGED <<is_active, driver, is_logged_in, monitoring_task, last_processed_messages, chat, scan, handed, sent>>
  /\ UNCHANGED <<store_vars, now, is_running, llm_provider, platforms, start_call, stop_call, config_vars, relationships, call_vars, decision, plugin_vars>>

\* start()'s except clause: stop(), then the failure is raised again
start_fails(call, step) ==
  /\ stop_effects
  /\ whatsapp_start' = [call EXCEPT !.pc = "raised", !.failed_at = step]

retries_once_more(retry_count) == retry_count <= max_retries

\* the test of the retry loop after a WebDriverException
retries(retry_count) == retry_count < max_retries

\* _cleanup_failed_browser_setup: quits the driver it finds; when quit()
\* raises, the except clause leaves the reference in place
_cleanup_failed_browser_setup(d, quit_ok) == IF d # None /\ quit_ok THEN None ELSE d

SetupOutcomes == {"ok", "no_driver", "driver_error", "other_error"}
NavigationOutcomes == {"ok", "raises"}

\* one attempt of _setup_browser, up to the next suspension: "no_driver" is a
\* WebDriverException of webdriver.Chrome(), "driver_error" one of
\* execute_script (the driver is assigned), "other_error" any other
\* exception; after a success start() goes on to driver.get() without
\* suspending
setup_attempt(outcome, quit_ok, navigation) ==
  LET attempt == [whatsapp_start EXCEPT !.attempts = @ + 1]
      created == Some(attempt.attempts)
      failed == [attempt EXCEPT !.retry_count = @ + 1]
      found == IF outcome = "driver_error" THEN created ELSE driver
  IN /\ whatsapp_start.pc = "setup"
     /\ IF outcome = "ok"
        THEN IF navigation = "ok"
             THEN /\ whatsapp_start' = [attempt EXCEPT !.pc = "login", !.setup = "ok", !.setup_driver = created]
                  /\ driver' = created
                  /\ UNCHANGED <<is_active, monitoring_task, scan>>
             ELSE start_fails([attempt EXCEPT !.setup = "ok", !.setup_driver = created], "navigate")
        ELSE IF outcome = "other_error"
        THEN start_fails([attempt EXCEPT !.setup = "other_error"], "setup")
        ELSE IF retries(failed.retry_count)
        THEN /\ whatsapp_start' = [failed EXCEPT !.cleanups = @ + 1]
             /\ driver' = _cleanup_failed_browser_setup(found, quit_ok)
             /\ UNCHANGED <<is_active, monitoring_task, scan>>
        ELSE start_fails([failed EXCEPT !.setup = "driver_error"], "setup")
     /\ UNCHANGED <<is_logged_in, last_processed_messages, chat, handed, sent>>
     /\ UNCHANGED <<store_vars, now, clone_vars, config_vars, relationships, call_vars, decision, plugin_vars>>

\* _wait_for_login ends: the chat list was found (driver.find_elements needs
\* the driver), or five minutes passed
wait_for_login(logged_in) ==
  /\ whatsapp_start.pc = "login"
  /\ IF logged_in
     THEN /\ driver # None
          /\ is_logged_in' = TRUE
          /\ monitoring_task' = "running"
          /\ is_active' = TRUE
          /\ whatsapp_start' = [whatsapp_start EXCEPT !.pc = "started"]
          /\ UNCHANGED <<driver, scan>>
     ELSE /\ is_logged_in' = FALSE
          /\ start_fails(whatsapp_start, "login")
  /\ UNCHANGED <<last_processed_messages, chat, handed, sent>>
  /\ UNCHANGED <<store_vars, now, clone_vars, config_vars, relationships, call_vars, decision, plugin_vars>>

Incoming(messages) == SelectSeq(messages, LAMBDA m : m.incoming)

\* the contact sends a message: a new incoming element, and the unread badge
chat_receives ==
  /\ Len(Incoming(chat.messages)) < MaxIncoming
  /\ chat' = [messages |-> Append(chat.messages, [id |-> Len(Incoming(chat.messages)) + 1, incoming |-> TRUE]), unread |-> TRUE]
  /\ UNCHANGED <<is_active, driver, is_logged_in, monitoring_task, last_processed_messages, whatsapp_start, scan, handed, sent>>
  /\ UNCHANGED <<store_vars, now, clone_vars, config_vars, relationships, call_vars, decision, plugin_vars>>

\* the loop of _get_new_messages from element i of the recent elements, with
\* last_processed_messages and the new messages collected so far
RECURSIVE _get_new_messages(_, _, _, _)
_get_new_messages(elements, i, last, new_messages) ==
  IF i > Len(elements) THEN [new_messages |-> new_messages, last |-> last]
  ELSE IF ~elements[i].incoming THEN _get_new_messages(elements, i + 1, last, new_messages)
  ELSE IF Contact \in DOMAIN last /\ last[Contact] = elements[i].id THEN _get_new_messages(elements, i + 1, last, new_messages)
  ELSE _get_new_messages(elements, i + 1, (Contact :> elements[i].id) @@ last, Append(new_messages, [id |-> elements[i].id, sender |-> Contact]))

\* one pass of _check_for_new_messages over the unread chat, up to the first
\* _process_incoming_message; opening the chat clears its badge
check_for_new_messages ==
  LET found == _get_new_messages(LastN(chat.messages, RecentMessages), 1, last_processed_messages, <<>>)
  IN /\ monitoring_task = "running"
     /\ is_active
     /\ driver # None
     /\ scan.pc = "idle"
     /\ chat.unread
     /\ last_processed_messages' = found.last
     /\ scan' = [pc |-> IF found.new_messages = <<>> THEN "idle" ELSE "processing", queue |-> found.new_messages, response |-> None]
     /\ chat' = [chat EXCEPT !.unread = FALSE]
     /\ UNCHANGED <<is_active, driver, is_logged_in, monitoring_task, whatsapp_start, handed, sent>>
     /\ UNCHANGED <<store_vars, now, clone_vars, config_vars, relationships, call_vars, decision, plugin_vars>>

\* the scan after the message at the head of its queue is dealt with
next_message == IF Len(scan.queue) > 1 THEN [pc |-> "processing", queue |-> Tail(scan.queue), response |-> None] ELSE NoScan

TransportResponses == {None, Some(""), Some("Sure")}

\* _process_incoming_message up to its send: the message is handed to
\* process_message (the clone reference is set), which returns response
process_incoming_message(response) ==
  /\ scan.pc = "processing"
  /\ Len(handed) < MaxHandings
  /\ handed' = Append(handed, [id |-> scan.queue[1].id, response |-> response])
  /\ scan' = IF response_is_truthy(response) THEN [scan EXCEPT !.pc = "sending", !.response = response] ELSE next_message
  /\ UNCHANGED <<is_active, driver, is_logged_in, monitoring_task, last_processed_messages, whatsapp_start, chat, sent>>
  /\ UNCHANGED <<store_vars, now, clone_vars, config_vars, relationships, call_vars, decision, plugin_vars>>

\* send_message after the delay; delivered is whether the browser accepts
\* it, and a delivered message shows in the chat as an outgoing element
send_message(delivered) ==
  LET success == is_active /\ driver # None /\ delivered
  IN /\ scan.pc = "sending"
     /\ sent' = Append(sent, [id |-> scan.queue[1].id, handing |-> Len(handed), recipient |-> scan.queue[1].sender, message |-> scan.response[1], success |-> success])
     /\ chat' = IF success THEN [chat EXCEPT !.messages = Append(@, [id |-> 0 - Len(sent') , incoming |-> FALSE])] ELSE chat
     /\ scan' = next_message
     /\ UNCHANGED <<is_active, driver, is_logged_in, monitoring_task, last_processed_messages, whatsapp_start, handed>>
     /\ UNCHANGED <<store_vars, now, clone_vars, config_vars, relationships, call_vars, decision, plugin_vars>>

NextTransport ==
  \/ whatsapp_start_call
  \/ \E outcome \in SetupOutcomes, quit_ok \in BOOLEAN, navigation \in NavigationOutcomes : setup_attempt(outcome, quit_ok, navigation)
  \/ \E logged_in \in BOOLEAN : wait_for_login(logged_in)
  \/ whatsapp_stop
  \/ chat_receives
  \/ check_for_new_messages
  \/ \E response \in TransportResponses : process_incoming_message(response)
  \/ \E delivered \in BOOLEAN : send_message(delivered)

SpecTransport == Init /\ [][NextTransport]_vars

\* ------------------------------------------------------------- PluginManager
\* A plugin is its name.  plugins is the dict of the registered plugins as
\* the sequence of its items, in insertion order: the name, the object's
\* is_active flag and what its hook methods do when called (return a value,
\* return None, raise).  Every subclass of PluginBase has the four hook
\* methods, so hasattr is true.
\* Every behaviour is a sequence of registrations and initialisations
\* followed by one call_hook, whose result is kept in returned.
PluginNames == {"p1", "p2", "p3"}
HookBehaviours == {"value", "none", "raises"}

RegisteredNames == {plugins[i].name : i \in DOMAIN plugins}

Plugin(name) == plugins[CHOOSE i \in DOMAIN plugins : plugins[i].name = name]

PluginBase(name, behaviour) == [name |-> name, is_active |-> FALSE, behaviour |-> behaviour]

register_plugin(name, behaviour) ==
  /\ IF name \in RegisteredNames
     THEN UNCHANGED <<plugins, plugin_hooks>>
     ELSE /\ plugins' = Append(plugins, PluginBase(name, behaviour))
          /\ plugin_hooks' = [hook_name \in DOMAIN plugin_hooks |-> Append(plugin_hooks[hook_name], name)]
  /\ UNCHANGED <<store_vars, now, clone_vars, config_vars, relationships, call_vars, decision, transport_vars>>

\* plugin.cleanup() may raise: the except clause logs it and the removal goes on
unregister_plugin(plugin_name) ==
  /\ plugin_name \in RegisteredNames
  /\ plugin_hooks' = [hook_name \in DOMAIN plugin_hooks |-> SelectSeq(plugin_hooks[hook_name], LAMBDA p : p # plugin_name)]
  /\ plugins' = SelectSeq(plugins, LAMBDA p : p.name # plugin_name)
  /\ UNCHANGED <<store_vars, now, clone_vars, config_vars, relationships, call_vars, decision, transport_vars>>

\* initialize_plugins: initialized is the set of plugins whose initialize()
\* returns True; the others return False or raise and keep their flag
initialize_plugins(initialized) ==
  /\ initialized # {}
  /\ plugins' = [i \in DOMAIN plugins |-> IF plugins[i].name \in initialized THEN [plugins[i] EXCEPT !.is_active = TRUE] ELSE plugins[i]]
  /\ UNCHANGED <<plugin_hooks, store_vars, now, clone_vars, config_vars, relationships, call_vars, decision, transport_vars>>

RECURSIVE call_hook_loop_stops_at_error(_, _, _, _)
call_hook_loop_stops_at_error(hooked, i, invoked, results) ==
  IF i > Len(hooked) THEN [invoked |-> invoked, results |-> results]
  ELSE LET plugin == hooked[i]
       IN IF ~Plugin(plugin).is_active THEN call_hook_loop_stops_at_error(hooked, i + 1, invoked, results)
          ELSE IF Plugin(plugin).behaviour = "value" THEN call_hook_loop_stops_at_error(hooked, i + 1, Append(invoked, plugin), Append(results, plugin))
          ELSE IF Plugin(plugin).behaviour = "none" THEN call_hook_loop_stops_at_error(hooked, i + 1, Append(invoked, plugin), results)
          ELSE [invoked |-> Append(invoked, plugin), results |-> results]

\* the loop of call_hook from position i of the list of the hook, with the
\* plugins invoked and the results collected so far
RECURSIVE call_hook_loop(_, _, _, _)
call_hook_loop(hooked, i, invoked, results) ==
  IF i > Len(hooked) THEN [invoked |-> invoked, results |-> results]
  ELSE LET plugin == hooked[i]
       IN IF ~Plugin(plugin).is_active THEN call_hook_loop(hooked, i + 1, invoked, results)
          ELSE IF Plugin(plugin).behaviour = "value" THEN call_hook_loop(hooked, i + 1, Append(invoked, plugin), Append(results, plugin))
          ELSE IF Plugin(plugin).behaviour = "none" THEN call_hook_loop(hooked, i + 1, Append(invoked, plugin), results)
          ELSE call_hook_loop(hooked, i + 1, Append(invoked, plugin), results)

call_hook(hook_name) ==
  /\ returned' = Some([op |-> "call_hook", hook_name |-> hook_name] @@
                      (IF hook_name \notin DOMAIN plugin_hooks THEN [invoked |-> <<>>, results |-> <<>>]
                       ELSE call_hook_loop(plugin_hooks[hook_name], 1, <<>>, <<>>)))
  /\ UNCHANGED <<calls, called, store_vars, now, clone_vars, config_vars, relationships, decision, transport_vars, plugin_vars>>

CalledHooks == HookNames \cup {"on_shutdown"}

NextPlugins ==
  \/ returned = None /\ \E name \in PluginNames, behaviour \in HookBehaviours : register_plugin(name, behaviour)
  \/ returned = None /\ \E plugin_name \in PluginNames : unregister_plugin(plugin_name)
  \/ returned = None /\ \E initialized \in SUBSET RegisteredNames : initialize_plugins(initialized)
  \/ returned = None /\ \E hook_name \in CalledHooks : call_hook(hook_name)

SpecPlugins == Init /\ [][NextPlugins]_vars

\* ------------------------------------------------------------------ claims

\* C1: with capacity N >= 1, once N+k messages (k >= 0) have been appended to
\* one key, all stamped inside the time window, history(key) is exactly the
\* last N appended messages in arrival order.
C1_BoundedHistory ==
  \A key \in DOMAIN arrivals :
    LET N == max_messages_per_conversation
        log == arrivals[key]
    IN (Len(log) >= N /\ \A i \in 1..Len(log) : log[i].timestamp >= now - context_window_days)
         => get_conversation_history(conversations, key, None) = MapSeq(LastN(log, N), to_dict)

C1_Witness ==
  \E key \in DOMAIN arrivals :
    /\ Len(arrivals[key]) > max_messages_per_conversation
    /\ max_messages_per_conversation >= 2
    /\ \A i \in 1..Len(arrivals[key]) : arrivals[key][i].timestamp >= now - context_window_days
    /\ Len(get_conversation_history(conversations, key, None)) = max_messages_per_conversation

\* every call that is in flight or has just returned
SeenCalls == {calls[c] : c \in DOMAIN calls} \cup (IF returned = None THEN {} ELSE {returned[1]})

\* the value process_message returned is nothing to send (None or "")
NoResponse(ret) == ret = None \/ ret[1] = ""

TriggerHit(content) == \E word \in response_triggers : Contains(word, Lower(content))

\* C2: a message from a sender on the ignore list never reaches
\* PersonalityEngine.should_respond nor the generator, and process_message
\* returns no response for it, whatever its content (trigger words included).
C2_IgnoreShortCircuit ==
  \A call \in SeenCalls :
    call.sender \in ignore_senders =>
      /\ ~call.evaluated
      /\ ~call.generated
      /\ call.pc = "done"
      /\ call.ret = None

C2_Witness ==
  /\ returned # None
  /\ returned[1].running
  /\ returned[1].sender \in ignore_senders
  /\ TriggerHit(returned[1].content)
  /\ returned[1].user_appended = 1

ClaimedVerdict(d, triggers) ==
  LET profile == d.sender \in DOMAIN relationships
      hit == \E word \in triggers : Contains(word, Lower(d.content))
      outside == d.time_of_day < ActiveStart \/ d.time_of_day > ActiveEnd
      num == response_probability * (IF profile THEN 10 + relationships[d.sender].closeness_level ELSE 20)
                                  * (IF hit THEN 12 ELSE 10) * (IF outside THEN 3 ELSE 10)
      den == 100 * 20 * 10 * 10
      clamped == IF num > den THEN den ELSE IF num < 0 THEN 0 ELSE num
  IN d.draw * den < 100 * clamped

C4_VerdictConfiguredTriggers ==
  decision # None => decision[1].verdict = ClaimedVerdict(decision[1], response_triggers)

\* C4 as amended: the same, the factor 1.2 applying iff the lower-cased
\* content holds one of the engine's four fixed words help, question, urgent,
\* please, whatever the configured response_triggers are.
C4_VerdictFixedTriggers ==
  decision # None => decision[1].verdict = ClaimedVerdict(decision[1], {"help", "question", "urgent", "please"})

C4_Witness ==
  /\ decision # None
  /\ response_probability = 80
  /\ decision[1].sender \notin DOMAIN relationships
  /\ decision[1].content = "Please HELP urgent"
  /\ decision[1].time_of_day = 1320
  /\ decision[1].draw = 96
  /\ ~decision[1].verdict
  /\ response_triggers # DefaultTriggers

\* C5: when process_message is called while running and returns no response,
\* the incoming message has been appended exactly once, as a user message, to
\* the history of its key, and the call appended no assistant message.
C5_UnansweredStaysInHistory ==
  (returned # None /\ returned[1].running /\ NoResponse(returned[1].ret)) =>
    LET call == returned[1]
    IN /\ call.user_appended = 1
       /\ call.assistant_appended = 0
       /\ call.key \in DOMAIN arrivals
       /\ call.user_at \in 1..Len(arrivals[call.key])
       /\ arrivals[call.key][call.user_at].content = call.content
       /\ arrivals[call.key][call.user_at].role = "user"
       /\ conversations[call.key] = arrivals[call.key]

C5_Witness ==
  /\ returned # None
  /\ returned[1].running
  /\ returned[1].generated
  /\ returned[1].ret = Some("")
  /\ \E c \in DOMAIN calls : calls[c].key = returned[1].key

\* C6: when process_message returns a response text, the history of its key
\* holds the incoming user message and, after it, exactly one assistant message
\* appended by the call, whose content is the returned text; an assistant
\* message enters a history only in the step in which a generation returns it.
C6_ResponseState ==
  (returned # None /\ ~NoResponse(returned[1].ret)) =>
    LET call == returned[1]
        log == conversations[call.key]
    IN /\ call.generated
       /\ call.user_appended = 1
       /\ call.assistant_appended = 1
       /\ 1 <= call.user_at /\ call.user_at < call.assistant_at /\ call.assistant_at <= Len(log)
       /\ log[call.user_at].content = call.content /\ log[call.user_at].role = "user"
       /\ log[call.assistant_at].content = call.ret[1] /\ log[call.assistant_at].role = "assistant"
       /\ arrivals[call.key] = log

AssistantCount(log) == Len(SelectSeq(log, LAMBDA msg : msg.role = "assistant"))

C6_ResponseAppendedAfterGeneration ==
  [][/\ C6_ResponseState'
     /\ \A key \in DOMAIN conversations' :
          AssistantCount(conversations'[key]) > AssistantCount(Lookup(conversations, key, <<>>)) =>
            /\ returned' # None
            /\ returned'[1].key = key
            /\ \E c \in DOMAIN calls : c \notin DOMAIN calls' /\ calls[c].generated /\ calls[c].key = key
            /\ ~NoResponse(returned'[1].ret)
            /\ AssistantCount(conversations'[key]) = AssistantCount(Lookup(conversations, key, <<>>)) + 1]_vars

C6_Witness ==
  /\ returned # None
  /\ returned[1].ret = Some("Sure")
  /\ returned[1].assistant_at > returned[1].user_at + 1

\* C7: a blank or whitespace-only text from the generator is treated as a
\* generation failure: nothing is returned to send and no assistant message is
\* appended.
C7_BlankIsFailure ==
  (returned # None /\ returned[1].generated /\ returned[1].ret # None /\ Strip(returned[1].ret[1]) = "") =>
    /\ returned[1].ret[1] = ""
    /\ returned[1].assistant_appended = 0

\* C8: process_message called while the clone is not running returns None,
\* appends to no history and calls neither the DecisionEngine nor the
\* generator.
C8_NotRunningNoOp ==
  [][(called' = called + 1 /\ ~is_running) =>
       /\ returned' # None
       /\ returned'[1].ret = None
       /\ ~returned'[1].evaluated
       /\ ~returned'[1].generated
       /\ returned'[1].user_appended = 0
       /\ UNCHANGED <<store_vars, calls>>]_vars

C8_Witness ==
  /\ returned # None
  /\ ~returned[1].running
  /\ returned[1].sender \notin ignore_senders
  /\ TriggerHit(returned[1].content)
  /\ DOMAIN conversations # {}

\* C9: the clone is running only once every registered platform's start has
\* completed successfully: never while a platform's start is pending or failed.
C9_RunningOnlyAfterStarts ==
  is_running => \A name \in DOMAIN platforms : platforms[name].start \notin {"pending", "failed"}

\* C10: when a platform's start fails during start(), start() raises that
\* failure and, by the time it returns, stop has been invoked on every platform
\* whose start had succeeded.
C10_FailedStartStopsStarted ==
  [][(start_call.pc = "gather" /\ start_call'.pc = "done" /\ \E name \in DOMAIN platforms : platforms[name].start = "failed") =>
       /\ start_call'.result = "platform_error"
       /\ \A name \in DOMAIN platforms' : platforms'[name].start = "ok" => platforms'[name].stops >= platforms'[name].starts]_vars

\* C11: start() called while the clone is running fails with an error raised
\* to its caller, and leaves is_running and every platform untouched.
C11_AlreadyRunningFails ==
  [][(is_running /\ start_call.pc # "gather" /\ start_call' # start_call) =>
       /\ start_call'.pc = "done"
       /\ Raised(start_call'.result)
       /\ UNCHANGED <<is_running, platforms>>]_vars

\* C12: start() called with no llm_provider set raises ValueError, the clone
\* stays not running and no platform's start is invoked.
C12_NoGeneratorFails ==
  [][(llm_provider = None /\ start_call' # start_call) =>
       /\ start_call'.pc = "done"
       /\ start_call'.result = "ValueError"
       /\ Raised(start_call'.result)
       /\ ~is_running'
       /\ platforms' = platforms
       /\ \A name \in DOMAIN platforms : platforms[name].starts = 0 /\ platforms[name].start = "none"]_vars

C12_Witness ==
  /\ llm_provider = None
  /\ start_call = [pc |-> "done", result |-> "ValueError"]
  /\ DOMAIN platforms = PlatformNames
  /\ ~is_running

\* C13: stop() always ends with the clone not running, and a failure raised by
\* one platform's stop is not propagated to the caller of stop().
C13_StopSwallowsFailures ==
  [][(stop_call.pc = "gather" /\ stop_call'.pc = "done") =>
       /\ ~Raised(stop_call'.result)
       /\ ~is_running']_vars

\* C14: every call of stop(), whatever the lifecycle state, invokes stop on
\* each registered platform.
C14_StopReachesEveryPlatform ==
  [][(stop_call.pc # "gather" /\ stop_call' # stop_call) =>
       \A name \in DOMAIN platforms : platforms'[name].stops = platforms[name].stops + 1]_vars
\* the step in which a call of process_message returns to its caller; returned'
\* is then the record of that call
CallReturns == (called' = called + 1 /\ calls' = calls) \/ (called' = called /\ DOMAIN calls' # DOMAIN calls)

\* C15: an error raised in the pipeline of one message (DecisionEngine, history
\* read, generator) makes that call of process_message return None without
\* raising; the step leaves is_running as it was and leaves the history of
\* every other conversation key unchanged.
C15_PipelineErrorIsContained ==
  [][(CallReturns /\ returned' # None /\ returned'[1].error # "none") =>
       /\ returned'[1].ret = None
       /\ ~returned'[1].raised
       /\ returned'[1].pc = "done"
       /\ is_running' = is_running
       /\ \A key \in (DOMAIN conversations \cup DOMAIN conversations') \ {returned'[1].key} :
            /\ key \in DOMAIN conversations /\ key \in DOMAIN conversations'
            /\ conversations'[key] = conversations[key]
            /\ Lookup(conversation_metadata', key, <<>>) = Lookup(conversation_metadata, key, <<>>)]_vars

C15_Witness ==
  /\ returned # None
  /\ returned[1].error = "history"
  /\ returned[1].ret = None
  /\ is_running
  /\ \E key \in DOMAIN conversations : key # returned[1].key /\ conversations[key] # <<>>
\* C16: every call of process_message eventually returns: a call suspended in
\* generate_response does not stay suspended forever.
C16_EveryCallReturns ==
  \A c \in 1..MaxCalls : (c \in DOMAIN calls) ~> (c \notin DOMAIN calls)
Last(seq) == seq[Len(seq)]

\* C17: appends to one key issued by concurrently running calls of
\* process_message are applied whole and in arrival order: every history is
\* the arrival log of its key, its metadata reflects its last message and its
\* length, and the history each suspended call has read is the arrival log up
\* to that call's own user message.
C17_AppendsAtomicInOrder ==
  /\ \A key \in DOMAIN conversations :
       /\ conversations[key] = LastN(Lookup(arrivals, key, <<>>), max_messages_per_conversation)
       /\ get_conversation_history(conversations, key, None) = MapSeq(Lookup(arrivals, key, <<>>), to_dict)
       /\ conversations[key] # <<>> =>
            /\ key \in DOMAIN conversation_metadata
            /\ conversation_metadata[key]["message_count"] = Len(conversations[key])
            /\ conversation_metadata[key]["last_activity"] = Last(conversations[key]).timestamp
            /\ conversation_metadata[key]["first_message"] = conversations[key][1].timestamp
  /\ \A c \in DOMAIN calls :
       calls[c].history = MapSeq(SubSeq(arrivals[calls[c].key], 1, calls[c].user_at), to_dict)

C17_Witness ==
  \E c1 \in DOMAIN calls, c2 \in DOMAIN calls :
    /\ c1 < c2
    /\ calls[c1].key = calls[c2].key
    /\ calls[c1].user_at < calls[c2].user_at
    /\ Len(calls[c2].history) = Len(calls[c1].history) + 1

\* C18: cleanup_old_conversations interleaved with appends never loses a
\* fresh message: the step that appends a message stamped inside the window
\* leaves its key with a record ending in that message, and no later step
\* that is not an append removes or changes the end of a record whose last
\* appended message is inside the window.
C18_FreshAppendSurvivesCleanup ==
  [][/\ appended' = appended + 1 =>
          \A key \in DOMAIN arrivals' :
            (Len(arrivals'[key]) > Len(Lookup(arrivals, key, <<>>)) /\ Last(arrivals'[key]).timestamp >= now - context_window_days) =>
              /\ key \in DOMAIN conversations'
              /\ Last(conversations'[key]) = Last(arrivals'[key])
     /\ appended' = appended =>
          \A key \in DOMAIN arrivals :
            (arrivals[key] # <<>> /\ Last(arrivals[key]).timestamp >= now' - context_window_days) =>
              /\ key \in DOMAIN conversations'
              /\ conversations'[key] # <<>>
              /\ Last(conversations'[key]) = Last(arrivals[key])]_vars

C18_Witness ==
  /\ appended = 2
  /\ \E key \in StoreKeys :
       /\ DOMAIN conversations = {key}
       /\ Len(arrivals[key]) = 1
       /\ conversations[key] = arrivals[key]
       /\ arrivals[key][1].content = "M2"
       /\ arrivals[key][1].timestamp = now

\* C19: cleanup_old_conversations removes every record (messages and
\* metadata) whose last_activity precedes now minus the window, and leaves
\* every other record unchanged: last active 31 days ago is removed, 29 or
\* exactly 30 days ago is retained.
C19_CleanupRemovesExactlyStale ==
  [][StoreCleanup =>
       LET cutoff == now - context_window_days
           Stale(key) == /\ key \in DOMAIN conversation_metadata
                         /\ "last_activity" \in DOMAIN conversation_metadata[key]
                         /\ conversation_metadata[key]["last_activity"] < cutoff
       IN /\ DOMAIN conversations' \subseteq DOMAIN conversations
          /\ DOMAIN conversation_metadata' \subseteq DOMAIN conversation_metadata
          /\ \A key \in DOMAIN conversations \cup DOMAIN conversation_metadata :
               IF Stale(key)
               THEN key \notin DOMAIN conversations' /\ key \notin DOMAIN conversation_metadata'
               ELSE /\ key \in DOMAIN conversations => (key \in DOMAIN conversations' /\ conversations'[key] = conversations[key])
                    /\ key \in DOMAIN conversation_metadata => (key \in DOMAIN conversation_metadata' /\ conversation_metadata'[key] = conversation_metadata[key])]_vars

C19_Witness ==
  /\ appended = 2
  /\ \E key \in StoreKeys :
       /\ DOMAIN conversations = {key}
       /\ DOMAIN conversation_metadata = {key}
       /\ Len(arrivals[key]) = 1
       /\ conversations[key] = arrivals[key]
       /\ arrivals[key][1].content = "M1"
       /\ conversation_metadata[key]["last_activity"] = now - 29

\* C20: reading a history is a pure read: a conversation record exists only
\* for a key that has received a message through add_message.
C20_RecordsOnlyFromAppend ==
  \A key \in DOMAIN conversations : key \in DOMAIN arrivals /\ arrivals[key] # <<>>
\* C21: in every store state reached by appends (with any given timestamps)
\* and cleanups, every non-empty record has last_activity equal to the
\* timestamp of its last stored message, holds at most
\* max_messages_per_conversation messages, and stores them in arrival order.
C21_RecordInvariant ==
  \A key \in DOMAIN conversations :
    conversations[key] # <<>> =>
      LET log == conversations[key]
          n == Len(log)
          all == arrivals[key]
      IN /\ conversation_metadata[key]["last_activity"] = log[n].timestamp
         /\ n <= max_messages_per_conversation
         /\ n <= Len(all)
         /\ \A i \in 1..n : log[i] = all[Len(all) - n + i]

C21_Witness ==
  \E key \in DOMAIN conversations :
    /\ Len(conversations[key]) = 2
    /\ Len(arrivals[key]) = 3
    /\ conversations[key][2].timestamp < conversations[key][1].timestamp
    /\ conversation_metadata[key]["last_activity"] = conversations[key][2].timestamp
\* the read that has just returned
ReadOf(op) == returned # None /\ returned[1].op = op

\* C22: get_conversation_history(key) returns exactly the stored messages of
\* key stamped at or after now minus the window, in stored order, wherever
\* they sit in the buffer.
C22_HistoryIsWindowFilter ==
  (ReadOf("get_conversation_history") /\ returned[1].limit = None) =>
    LET stored == conversations[returned[1].key]
        result == returned[1].result
        keep == {i \in 1..Len(stored) : stored[i].timestamp >= now - context_window_days}
        Nth(i) == CHOOSE j \in keep : Cardinality({k \in keep : k < j}) = i - 1
    IN /\ Len(result) = Cardinality(keep)
       /\ \A i \in 1..Len(result) :
            result[i] = [content |-> stored[Nth(i)].content, role |-> stored[Nth(i)].role, timestamp |-> isoformat(stored[Nth(i)].timestamp)]

C22_Witness ==
  /\ ReadOf("get_conversation_history")
  /\ returned[1].limit = None
  /\ LET stored == conversations[returned[1].key]
     IN /\ Len(stored) = 2
        /\ stored[1].timestamp = now
        /\ stored[2].timestamp = now - (context_window_days + 1)
        /\ Len(returned[1].result) = 1
        /\ returned[1].result[1].content = stored[1].content

\* C23: for every limit L >= 0, when more than L messages of the key pass the
\* window filter get_conversation_history(key, L) returns exactly the L most
\* recent of them in order, and otherwise all of them.
C23_LimitIsRespected ==
  (ReadOf("get_conversation_history") /\ returned[1].limit # None) =>
    LET L == returned[1].limit[1]
        result == returned[1].result
        InWindow(msg) == msg.timestamp >= now - context_window_days
        filtered == MapSeq(SelectSeq(conversations[returned[1].key], InWindow), to_dict)
        n == Len(filtered)
    IN IF n > L
       THEN Len(result) = L /\ \A i \in 1..L : result[i] = filtered[n - L + i]
       ELSE result = filtered

\* C27: search_conversations(query, limit) returns at most limit results, each
\* of a message whose content contains the query whatever the case.
C27_SearchAtMostLimit ==
  ReadOf("search_conversations") =>
    /\ Len(returned[1].result) <= returned[1].limit
    /\ \A i \in 1..Len(returned[1].result) :
         Contains(Lower(returned[1].query), Lower(returned[1].result[i].message.content))

\* C28: the summary of a non-empty record reports the first_message kept in
\* the record's metadata (the timestamp of the first insert) and days_active
\* counted from it, also after appends that evicted the oldest messages.
C28_SummaryUsesFirstInsert ==
  (ReadOf("get_conversation_summary") /\ conversations[returned[1].key] # <<>>) =>
    LET meta == conversation_metadata[returned[1].key]
    IN /\ returned[1].result.first_message = Some(isoformat(meta["first_message"]))
       /\ returned[1].result.days_active = (meta["last_activity"] - meta["first_message"]) + 1
\* C24: every weight in the personality_traits mapping that
\* get_context_for_sender returns lies in [0, 1] (0..10 tenths), for every
\* registered trait weight, with or without an adjustment or a profile.
C24_ActiveTraitsInRange ==
  (decision # None /\ "context" \in DOMAIN decision[1]) =>
    \A name \in DOMAIN decision[1].context.personality_traits :
      0 <= decision[1].context.personality_traits[name] /\ decision[1].context.personality_traits[name] <= 10

\* C25: the verdict of should_respond is determined by the message (sender,
\* content) and the engine's configuration: called twice with the same
\* message it gives the same verdict.
C25_VerdictIsDetermined ==
  Len(decision) = 2 => decision[2].verdict = decision[1].verdict

\* C26: for a sender with a profile, each update_interaction_history(sender,
\* 'received') raises interaction_frequency by exactly one, and a call with
\* any other type leaves it unchanged; both set last_interaction to now, and
\* neither touches another sender's profile.
C26_InteractionCounted ==
  [][\A sender \in DOMAIN relationships, message_type \in MessageTypes :
       PersonalityInteraction(sender, message_type) =>
         /\ DOMAIN relationships' = DOMAIN relationships
         /\ relationships'[sender].interaction_frequency = relationships[sender].interaction_frequency + (IF message_type = "received" THEN 1 ELSE 0)
         /\ relationships'[sender].last_interaction = Some(now)
         /\ relationships'[sender].closeness_level = relationships[sender].closeness_level
         /\ \A other \in DOMAIN relationships \ {sender} : relationships'[other] = relationships[other]]_vars

C26_Witness ==
  /\ "alice" \in DOMAIN relationships
  /\ relationships["alice"].interaction_frequency = 2
  /\ relationships["alice"].last_interaction = Some(1)
  /\ now = 1

\* the call of process_message made in this step
NewCall == IF calls' = calls THEN returned'[1] ELSE calls'[called + 1]

\* C29: when process_message has run the decision for a message of a sender
\* with a profile, that profile's last_interaction is now and its
\* interaction_frequency is one higher than before.
C29_DecisionRecordsInteraction ==
  [][(called' = called + 1 /\ is_running /\ NewCall.evaluated /\ NewCall.sender \in DOMAIN relationships) =>
       /\ relationships'[NewCall.sender].interaction_frequency = relationships[NewCall.sender].interaction_frequency + 1
       /\ relationships'[NewCall.sender].last_interaction = Some(now)]_vars
\* C30: under any interleaving of calls of process_message, the history
\* handed to generate_response ends with the call's own user message.
C30_HistoryEndsWithOwnMessage ==
  \A c \in DOMAIN calls :
    LET history == calls[c].history
    IN /\ history # <<>>
       /\ history[Len(history)].content = calls[c].content
       /\ history[Len(history)].role = "user"
       /\ history[Len(history)] = to_dict(arrivals[calls[c].key][calls[c].user_at])

C30_Witness ==
  \E c1 \in DOMAIN calls, c2 \in DOMAIN calls :
    /\ calls[c1].key = calls[c2].key
    /\ calls[c1].content # calls[c2].content
    /\ Len(calls[c2].history) = 2
    /\ calls[c2].history[1].content = calls[c1].content
    /\ calls[c2].history[2].content = calls[c2].content

\* C37: for every non-empty conversation, whatever timestamps its appends
\* carried, the days_active that get_conversation_summary reports is at
\* least 1.
C37_DaysActiveAtLeastOne ==
  (ReadOf("get_conversation_summary") /\ returned[1].result.message_count > 0) =>
    returned[1].result.days_active >= 1

\* the user-role messages of a chat request that carry the given content,
\* as their whole content or quoted inside the user prompt
CarriesContent(messages, content) ==
  {i \in DOMAIN messages :
     /\ messages[i].role = "user"
     /\ \/ messages[i].content = content
        \/ Contains("\"" \o content \o "\"", messages[i].content)}

\* C35: in the chat request built for a message that process_message hands
\* to the generator, the content of that message appears in exactly one
\* user-role message.
C35_ContentOnceInRequest ==
  \A c \in DOMAIN calls :
    calls[c].generated => Cardinality(CarriesContent(chat_messages(calls[c]), calls[c].content)) = 1

\* the names of the active plugins, in the order of their registration
ActiveInOrder == MapSeq(SelectSeq(plugins, LAMBDA p : p.is_active), LAMBDA p : p.name)

\* C36: call_hook of a registered hook name invokes every active registered
\* plugin exactly once, in registration order, and no inactive plugin, also
\* after a hook that raised; the results are the non-null returns, in order.
C36_HookCallsAreIsolated ==
  (ReadOf("call_hook") /\ returned[1].hook_name \in HookNames) =>
    /\ returned[1].invoked = ActiveInOrder
    /\ returned[1].results = SelectSeq(ActiveInOrder, LAMBDA p : Plugin(p).behaviour = "value")

C36_Witness ==
  /\ ReadOf("call_hook")
  /\ returned[1].hook_name \in HookNames
  /\ Len(plugins) = 3
  /\ ~plugins[1].is_active
  /\ plugins[2].is_active /\ plugins[2].behaviour = "raises"
  /\ plugins[3].is_active /\ plugins[3].behaviour = "value"
  /\ returned[1].invoked = <<plugins[2].name, plugins[3].name>>

\* C31: over any number of scans of a chat, each incoming message (its
\* data-id) is handed to process_message at most once.
C31_HandedAtMostOnce ==
  \A i \in DOMAIN handed, j \in DOMAIN handed : handed[i].id = handed[j].id => i = j

\* C32: for each incoming message send_message is invoked at most once, and
\* only after process_message returned a response for it.
C32_SentAtMostOnce ==
  \A i \in DOMAIN sent :
    /\ response_is_truthy(handed[sent[i].handing].response)
    /\ handed[sent[i].handing].id = sent[i].id
    /\ \A j \in DOMAIN sent : sent[j].id = sent[i].id => i = j

\* C33: after a start() that failed, at whatever step, the transport is
\* inactive, holds no driver and has no monitoring task running or scanning.
C33_FailedStartLeavesInactive ==
  whatsapp_start.pc = "raised" =>
    /\ ~is_active
    /\ driver = None
    /\ monitoring_task # "running"
    /\ scan = NoScan

C33_Witness ==
  /\ whatsapp_start.pc = "raised"
  /\ whatsapp_start.failed_at = "login"
  /\ whatsapp_start.setup_driver # None

\* C34: _setup_browser makes at most 3 attempts; a driver-level failure
\* before the third is cleaned up and retried, the third is raised, any other
\* error is raised at once, and a success returns with a driver held.
C34_SetupTerminates ==
  /\ whatsapp_start.attempts <= max_retries
  /\ whatsapp_start.pc = "setup" => (whatsapp_start.cleanups = whatsapp_start.attempts /\ whatsapp_start.retry_count = whatsapp_start.attempts)
  /\ whatsapp_start.setup = "driver_error" => (whatsapp_start.attempts = max_retries /\ whatsapp_start.cleanups = max_retries - 1)
  /\ whatsapp_start.setup \in {"ok", "other_error"} => (whatsapp_start.cleanups = whatsapp_start.attempts - 1 /\ whatsapp_start.retry_count = whatsapp_start.attempts - 1)
  /\ whatsapp_start.setup = "ok" => whatsapp_start.setup_driver # None
  /\ whatsapp_start.pc = "login" => whatsapp_start.setup = "ok"

C34_Witness ==
  /\ whatsapp_start.setup = "ok"
  /\ whatsapp_start.attempts = max_retries
  /\ whatsapp_start.cleanups = 2
====
